---- MODULE Spec2Model ----
(***************************************************************************)
(* Model of validate_ico.rs: is_valid_ico opens the icon file, reads its   *)
(* first four octets with read_exact and compares them with the ICO magic; *)
(* main turns the Result into one diagnostic line and an exit status.      *)
(*                                                                         *)
(* The file system is the environment.  Its answers to the open and read   *)
(* requests are nondeterministic: an open may fail, a read may be short,   *)
(* may hit end of file, may be interrupted or may fail.                    *)
(***************************************************************************)
EXTENDS Integers, Sequences, FiniteSets, TLC

\* ---- bounds of the model ----
MaxLen == 5          \* longest file content enumerated
MaxByte == 1         \* octets 0..MaxByte are enumerated
MaxInterrupts == 1   \* interrupted requests per run

\* ---- program constants ----
HeaderLen == 4
Magic == <<0, 0, 1, 0>>
icon_path == "src-tauri/icons/icon.ico"

Octets == 0..MaxByte
PngMagic == <<137, 80, 78, 71>>
CurMagic == <<0, 0, 2, 0>>
IcoSample == <<0, 0, 1, 0, 1, 0, 16, 16>>

Contents ==
  UNION {[1..n -> Octets] : n \in 0..MaxLen} \cup {PngMagic, CurMagic, IcoSample}

Kinds == {"missing", "noperm", "dir", "file"}

\* what the path names: nothing, an unreadable file, a directory, a file
FileSystems ==
  {[kind |-> k, content |-> <<>>] : k \in Kinds \ {"file"}}
    \cup {[kind |-> "file", content |-> c] : c \in Contents}

Min(a, b) == IF a < b THEN a ELSE b
Max(a, b) == IF a > b THEN a ELSE b

VARIABLES
  fs,          \* the object the path names
  fs0,         \* the same object when the process started
  pc,          \* position of the process
  file,        \* the handle: "none", "open", "closed"
  pos,         \* offset of the handle
  header,      \* the four-octet buffer
  filled,      \* octets of header read_exact has filled so far
  outcome,     \* "none", "Valid" = Ok(true), "Invalid" = Ok(false), "IoFailure" = Err(e)
  err,         \* the error carried by Err(e)
  stdout,      \* lines written to standard output
  stderr,      \* lines written to standard error
  exitCode,    \* -1 while running
  interrupts,  \* interrupted requests so far
  reach,       \* highest file offset any read request could touch
  log          \* requests and steps, in order

vars == <<fs, fs0, pc, file, pos, header, filled, outcome, err, stdout, stderr,
          exitCode, interrupts, reach, log>>

Ev(op, res) == [op |-> op, res |-> res]

NextStepSkipRead(p) ==
  CASE p = "open"    -> "compare"
    [] p = "read"    -> "compare"
    [] p = "compare" -> "report"
    [] p = "report"  -> "exit"
    [] p = "exit"    -> "done"

\* the statements in program order: open, read_exact, compare and return,
\* the match arm's print, the exit
NextStep(p) ==
  CASE p = "open"    -> "read"
    [] p = "read"    -> "compare"
    [] p = "compare" -> "report"
    [] p = "report"  -> "exit"
    [] p = "exit"    -> "done"

\* k interrupted attempts of one request
Eintr(op, k) == [i \in 1..k |-> Ev(op, "Interrupted")]

\* ---- File::open(path) ----

\* answers the system can give to an open for reading
OpenResults(k) ==
  CASE k = "missing" -> {"NotFound", "Other"}
    [] k = "noperm"  -> {"PermissionDenied", "Other"}
    [] k = "dir"     -> {"Ok", "PermissionDenied", "Other"}
    [] k = "file"    -> {"Ok", "Other"}

OpenEffectCreate(f) ==
  IF f.kind = "file" THEN [f EXCEPT !.content = <<>>]
  ELSE IF f.kind = "missing" THEN [kind |-> "file", content |-> <<>>]
  ELSE f

\* File::open opens read-only: no create, no truncate
OpenEffect(f) == f

RetryableNone(e) == FALSE

\* the only error kind the library retries
Retryable(e) == e = "Interrupted"

DropFileLeak(h) == h

\* the File value goes out of scope when is_valid_ico returns
DropFile(h) == IF h = "open" THEN "closed" ELSE h

DropLog(h) == IF h = "open" THEN <<Ev("close", "Ok")>> ELSE <<>>

\* `?` : return Err(e) from is_valid_ico, dropping the locals
Fail(e, entries) ==
  /\ outcome' = "IoFailure"
  /\ err' = e
  /\ file' = DropFile(file)
  /\ log' = log \o entries \o DropLog(file)
  /\ pc' = "report"

Open ==
  /\ pc = "open"
  /\ \E k \in 0..(MaxInterrupts - interrupts), r \in OpenResults(fs.kind) :
       /\ interrupts' = interrupts + k
       /\ fs' = OpenEffect(fs)
       /\ IF r = "Ok"
            THEN /\ file' = "open"
                 /\ log' = log \o Eintr("open", k) \o <<Ev("open", "Ok")>>
                 /\ pc' = NextStep(pc)
                 /\ UNCHANGED <<outcome, err>>
            ELSE /\ Fail(r, Eintr("open", k) \o <<Ev("open", r)>>)
  /\ UNCHANGED <<fs0, pos, header, filled, stdout, stderr, exitCode, reach>>

\* ---- file.read_exact(&mut header) ----

ReadRequestWide(f) == HeaderLen - f + 1

\* the unfilled rest of the buffer is what each read asks for
ReadRequest(f) == HeaderLen - f

\* octet counts a read of at most req octets at offset p can return: a short
\* read returns fewer than asked, 0 only at end of file
ReadCounts(f, p, req) ==
  IF f.kind = "dir" THEN {}
  ELSE {n \in 0..Min(req, Len(f.content) - p) : n > 0 \/ Len(f.content) - p = 0}

\* errors a read can return, after i interrupted requests
ReadErrors(f, i) ==
  (IF i < MaxInterrupts THEN {"Interrupted"} ELSE {})
    \cup (IF f.kind = "dir" THEN {"IsADirectory", "Other"} ELSE {"Other"})

AfterLoopOk(f) == "Ok"

\* after the loop: an unfilled rest is an error
AfterLoop(f) == IF ReadRequest(f) > 0 THEN "UnexpectedEof" ELSE "Ok"

\* the system stores n octets from offset p of c at the start of the unfilled rest
Copy(h, f, c, p, n) ==
  [i \in 1..Len(h) |-> IF f < i /\ i <= f + n THEN c[p + (i - f)] ELSE h[i]]

\* one turn of the loop of read_exact
Read ==
  /\ pc = "read"
  /\ reach' = Max(reach, pos + ReadRequest(filled))
  /\ \/ \E n \in ReadCounts(fs, pos, ReadRequest(filled)) :
          /\ header' = Copy(header, filled, fs.content, pos, n)
          /\ pos' = pos + n
          /\ filled' = filled + n
          /\ IF n > 0 /\ ReadRequest(filled + n) > 0
               THEN /\ log' = Append(log, Ev("read", "Ok"))
                    /\ UNCHANGED <<pc, file, outcome, err>>
               ELSE IF AfterLoop(filled + n) = "Ok"
                      THEN /\ log' = Append(log, Ev("read", IF n > 0 THEN "Ok" ELSE "Eof"))
                           /\ pc' = NextStep(pc)
                           /\ UNCHANGED <<file, outcome, err>>
                      ELSE Fail(AfterLoop(filled + n), <<Ev("read", "Eof")>>)
          /\ UNCHANGED interrupts
     \/ \E e \in ReadErrors(fs, interrupts) :
          /\ interrupts' = IF e = "Interrupted" THEN interrupts + 1 ELSE interrupts
          /\ IF Retryable(e)
               THEN /\ log' = Append(log, Ev("read", e))
                    /\ UNCHANGED <<pc, file, outcome, err>>
               ELSE Fail(e, <<Ev("read", e)>>)
          /\ UNCHANGED <<header, pos, filled>>
  /\ UNCHANGED <<fs, fs0, stdout, stderr, exitCode>>

\* ---- Ok(header == [0, 0, 1, 0]) ----

VerdictType(h) == h[3] = 1 /\ h[4] = 0

Verdict(h) == h = Magic

Compare ==
  /\ pc = "compare"
  /\ outcome' = IF Verdict(header) THEN "Valid" ELSE "Invalid"
  /\ file' = DropFile(file)
  /\ log' = log \o <<Ev("compare", "Ok")>> \o DropLog(file)
  /\ pc' = NextStep(pc)
  /\ UNCHANGED <<fs, fs0, pos, header, filled, err, stdout, stderr, exitCode,
                 interrupts, reach>>

\* ---- main ----

Line(sigil, text) == [sigil |-> sigil, path |-> icon_path, text |-> text]

StreamOut(o) == "stdout"

Stream(o) == IF o = "Valid" THEN "stdout" ELSE "stderr"

MessageNoCause(o, e) ==
  CASE o = "Valid"     -> Line("check", "is a valid Windows ICO file")
    [] o = "Invalid"   -> Line("cross", "is not a valid ICO file!")
    [] o = "IoFailure" -> Line("Error checking", "")

Message(o, e) ==
  CASE o = "Valid"     -> Line("check", "is a valid Windows ICO file")
    [] o = "Invalid"   -> Line("cross", "is not a valid ICO file!")
    [] o = "IoFailure" -> Line("Error checking", e)

Report ==
  /\ pc = "report"
  /\ IF Stream(outcome) = "stdout"
       THEN /\ stdout' = Append(stdout, Message(outcome, err))
            /\ UNCHANGED stderr
       ELSE /\ stderr' = Append(stderr, Message(outcome, err))
            /\ UNCHANGED stdout
  /\ log' = Append(log, Ev(Stream(outcome), "Ok"))
  /\ pc' = NextStep(pc)
  /\ UNCHANGED <<fs, fs0, file, pos, header, filled, outcome, err, exitCode,
                 interrupts, reach>>

ExitStatusZero(o) == IF o = "IoFailure" THEN 1 ELSE 0

\* main returns on Ok(true); the other arms call std::process::exit(1)
ExitStatus(o) == IF o = "Valid" THEN 0 ELSE 1

Exit ==
  /\ pc = "exit"
  /\ exitCode' = ExitStatus(outcome)
  /\ log' = Append(log, Ev("exit", "Ok"))
  /\ pc' = NextStep(pc)
  /\ UNCHANGED <<fs, fs0, file, pos, header, filled, outcome, err, stdout, stderr,
                 interrupts, reach>>

Init ==
  /\ fs \in FileSystems
  /\ fs0 = fs
  /\ pc = "open"
  /\ file = "none"
  /\ pos = 0
  /\ header = [i \in 1..HeaderLen |-> 0]
  /\ filled = 0
  /\ outcome = "none"
  /\ err = "none"
  /\ stdout = <<>>
  /\ stderr = <<>>
  /\ exitCode = -1
  /\ interrupts = 0
  /\ reach = 0
  /\ log = <<>>

Next == Open \/ Read \/ Compare \/ Report \/ Exit

Spec == Init /\ [][Next]_vars

\* the blocking requests return and the process keeps running
FairSpec == Init /\ [][Next]_vars /\ WF_vars(Next)

\* ---- vocabulary of the properties ----

Returned == pc \in {"report", "exit", "done"}

Idx == DOMAIN log

IsRequest(e) == e.op \in {"open", "read"}

\* a request that reported an error of any kind
IsFault(e) == IsRequest(e) /\ e.res \notin {"Ok", "Eof"}

\* a request that reported an error other than an interruption
IsHardFault(e) == IsFault(e) /\ e.res # "Interrupted"

\* File::open or read_exact returned an error: a hard fault, or end of file
\* before the buffer was full
IsFailure(e) == IsHardFault(e) \/ (e.op = "read" /\ e.res = "Eof")

Cause(e) == IF e.res = "Eof" THEN "UnexpectedEof" ELSE e.res

Prefix(c) == SubSeq(c, 1, HeaderLen)

Count(P(_)) == Cardinality({i \in Idx : P(log[i])})

IsWrite(e) == e.op \in {"stdout", "stderr"}
IsExit(e) == e.op = "exit"
IsClose(e) == e.op = "close"
IsCompare(e) == e.op = "compare"
IsOpened(e) == e.op = "open" /\ e.res = "Ok"
IsOpenReturn(e) == e.op = "open" /\ e.res # "Interrupted"
IsRead(e) == e.op = "read"

\* C1: when four octets were read, the verdict is Ok(true) exactly when the
\* file's first four octets are 00 00 01 00, and Ok(false) otherwise; it is
\* never an error.
C1_MagicIff ==
  (Returned /\ filled = HeaderLen) =>
    /\ outcome \in {"Valid", "Invalid"}
    /\ outcome = "Valid" <=> Prefix(fs0.content) = Magic
    /\ \A i \in 1..HeaderLen : fs0.content[i] # Magic[i] => outcome = "Invalid"

C1_Witness ==
  /\ pc = "done"
  /\ fs0.content = CurMagic
  /\ filled = HeaderLen
  /\ outcome = "Invalid"

\* C2: a file of fewer than four octets gives an error, never Ok(true) or
\* Ok(false), also when the partly filled buffer equals the magic.
C2_ShortFileFails ==
  (Returned /\ fs0.kind = "file" /\ Len(fs0.content) < HeaderLen) =>
    outcome = "IoFailure"

C2_Witness ==
  /\ pc = "done"
  /\ fs0.content = <<0, 0, 1>>
  /\ filled = 3
  /\ header = Magic
  /\ outcome = "IoFailure"
  /\ err = "UnexpectedEof"

\* C3: the exit code is 0 exactly when the outcome is Valid, and 1 on Invalid
\* and on IoFailure alike.
C3_ExitCode ==
  /\ pc # "done" => exitCode = -1
  /\ pc = "done" =>
       /\ exitCode = 0 <=> outcome = "Valid"
       /\ outcome \in {"Invalid", "IoFailure"} => exitCode = 1

C3_Witness == pc = "done" /\ outcome = "IoFailure" /\ exitCode = 1

\* C4: when File::open or read_exact fails, the outcome is IoFailure carrying
\* the cause; the line written to standard error holds the path and the cause
\* and the exit code is not zero.
C4_FaultReported ==
  \A i \in Idx : IsFailure(log[i]) =>
    /\ outcome = "IoFailure"
    /\ err = Cause(log[i])
    /\ pc \in {"exit", "done"} =>
         /\ Len(stderr) = 1
         /\ stderr[1].path = icon_path
         /\ stderr[1].text = Cause(log[i])
    /\ pc = "done" => exitCode > 0

C4_Witness ==
  /\ pc = "done"
  /\ fs0.kind = "missing"
  /\ log[1] = Ev("open", "NotFound")
  /\ stderr = <<Line("Error checking", "NotFound")>>
  /\ exitCode = 1

\* C5: a run writes exactly one line: to standard output on Valid, to
\* standard error on Invalid and IoFailure, nothing to the other stream, and
\* it writes the line before it exits.
C5_OneLine ==
  /\ Len(stdout) + Len(stderr) <= 1
  /\ pc \in {"exit", "done"} =>
       /\ Len(stdout) + Len(stderr) = 1
       /\ outcome = "Valid" => Len(stdout) = 1 /\ stderr = <<>>
       /\ outcome \in {"Invalid", "IoFailure"} => Len(stderr) = 1 /\ stdout = <<>>
  /\ pc \notin {"exit", "done"} => stdout = <<>> /\ stderr = <<>>
  /\ \A i, j \in Idx : IsExit(log[i]) /\ IsWrite(log[j]) => j < i
  /\ pc = "done" => Count(IsWrite) = 1

C5_Witness ==
  /\ pc = "done"
  /\ outcome = "Valid"
  /\ stdout = <<Line("check", "is a valid Windows ICO file")>>
  /\ stderr = <<>>

\* C6: one File::open and one read_exact at most; a handle that was opened is
\* closed before the line is written and before the process exits.
C6_HandleReleased ==
  /\ Count(IsOpenReturn) <= 1
  /\ Count(IsOpened) <= 1
  /\ \A i \in Idx : IsRead(log[i]) => i > 1 /\ (IsRead(log[i - 1]) \/ IsOpened(log[i - 1]))
  /\ Returned => file # "open"
  /\ file = "open" => stdout = <<>> /\ stderr = <<>> /\ exitCode = -1
  /\ Returned => Count(IsClose) = Count(IsOpened)
  /\ \A i, j \in Idx : IsClose(log[i]) /\ (IsWrite(log[j]) \/ IsExit(log[j])) => i < j

C6_Witness ==
  /\ pc = "done"
  /\ file = "closed"
  /\ exitCode = 1
  /\ \E i \in Idx : log[i] = Ev("read", "Other")

\* a fault as the caller sees it: File::open returned an error, or a read
\* returned one, an interruption included
IsReported(e) == IsFault(e) /\ (e.op = "open" => IsOpenReturn(e))

\* C7 as stated: once the open or a read reports a fault of any kind, an
\* interrupted read included, no open or read follows and the outcome is
\* IoFailure.
C7_NoRetryAtAll ==
  \A i \in Idx : IsReported(log[i]) =>
    /\ \A j \in Idx : j > i => ~IsRequest(log[j])
    /\ Returned => outcome = "IoFailure"

\* C7: once an open or a read reports a fault other than an interruption, no
\* open or read follows and that fault is the outcome; an interrupted open or
\* read is asked again and is never the outcome.
C7_NoRetryButInterrupted ==
  /\ \A i \in Idx : IsHardFault(log[i]) =>
       /\ \A j \in Idx : j > i => ~IsRequest(log[j])
       /\ outcome = "IoFailure"
       /\ err = log[i].res
  /\ \A i \in Idx : IsFault(log[i]) /\ ~IsHardFault(log[i]) =>
       /\ i < Len(log) => log[i + 1].op = log[i].op
       /\ i = Len(log) => pc = log[i].op
  /\ err # "Interrupted"

C7_Witness ==
  /\ pc = "done"
  /\ outcome = "IoFailure"
  /\ err = "Other"
  /\ \E i \in Idx : log[i] = Ev("read", "Interrupted") /\ log[i + 1] = Ev("read", "Other")

\* C8: the object the path names is the same after the run as before it:
\* same content, same length, and nothing is created.
C8_FsUnchanged == fs = fs0

C8_Witness ==
  /\ pc = "done"
  /\ fs0.kind = "missing"
  /\ fs.kind = "missing"
  /\ Count(IsOpenReturn) = 1

\* what a run on a readable file may show, from the first four octets alone
Expected(p) ==
  IF p = <<0, 0, 1, 0>>
    THEN [outcome |-> "Valid", out |-> 1, err |-> 0, exit |-> 0]
    ELSE [outcome |-> "Invalid", out |-> 0, err |-> 1, exit |-> 1]

\* C9: on a readable file of four octets or more, the verdict, the stream
\* written to and the exit code are a function of octets 0..3, and no read
\* asks for an octet at offset 4 or beyond.
C9_PrefixOnly ==
  /\ reach <= HeaderLen
  /\ pos <= HeaderLen
  /\ (/\ pc = "done"
      /\ fs0.kind = "file"
      /\ Len(fs0.content) >= HeaderLen
      /\ Count(IsHardFault) = 0) =>
       [outcome |-> outcome, out |-> Len(stdout), err |-> Len(stderr), exit |-> exitCode]
         = Expected(Prefix(fs0.content))

C9_Witness ==
  /\ pc = "done"
  /\ fs0.content = IcoSample
  /\ outcome = "Valid"
  /\ reach = HeaderLen
  /\ exitCode = 0

Phase(e) ==
  CASE e.op = "open"    -> 1
    [] e.op = "read"    -> 2
    [] e.op = "compare" -> 3
    [] e.op = "close"   -> 3
    [] e.op = "stdout"  -> 4
    [] e.op = "stderr"  -> 4
    [] e.op = "exit"    -> 5

Ordered ==
  /\ \A i \in 1..(Len(log) - 1) : Phase(log[i]) <= Phase(log[i + 1])
  /\ \A i \in Idx : IsRead(log[i]) => \E j \in 1..(i - 1) : IsOpened(log[j])
  /\ \A i \in Idx : IsCompare(log[i]) => filled = HeaderLen /\ Count(IsFailure) = 0
  /\ Count(IsCompare) <= 1 /\ Count(IsWrite) <= 1 /\ Count(IsExit) <= 1
  /\ \A i \in Idx : IsWrite(log[i]) => (i = Len(log) \/ (i + 1 = Len(log) /\ IsExit(log[i + 1])))
  /\ pc = "done" =>
       /\ outcome \in {"Valid", "Invalid", "IoFailure"}
       /\ IsExit(log[Len(log)])
       /\ Count(IsWrite) = 1
       /\ outcome = "IoFailure" <=> Count(IsFailure) = 1
       /\ outcome # "IoFailure" <=> Count(IsCompare) = 1

\* C10: every run ends, in one of Valid, Invalid and IoFailure, and its steps
\* come in the order open, read (after a successful open), compare (after
\* four octets were read), report, exit, with nothing after the report but the
\* exit.
C10_Terminates == <>(pc = "done") /\ []Ordered

C10_Witness ==
  /\ pc = "done"
  /\ outcome = "Invalid"
  /\ Len(log) >= 7
  /\ Count(IsRead) = HeaderLen

====
